---- MODULE Spec2Model ----
(***************************************************************************)
(* Model of imei_pdf_app.py: the IMEI -> PDF lookup page.                  *)
(*                                                                         *)
(* Python strings and byte strings are sequences (of one-character        *)
(* strings, of byte values).  A value that may be None is a record with   *)
(* an isNone flag.  A dict is a function whose domain is its key set.      *)
(***************************************************************************)
EXTENDS Integers, Sequences, FiniteSets, TLC

(* ---------------------------------------------------------------- bounds *)
MaxRows == 2          \* rows of a sheet in the loader specification
MaxTime == 900        \* the clock stops here
TickStep == 300       \* seconds one Tick advances the clock

(* ------------------------------------------------------ program constants *)
TTL == 600            \* @st.cache_data(ttl=600)
IMEI_LEN == 15        \* len(imei_input) != 15

(* ------------------------------------------------------------ Python values *)
NoneStr == [isNone |-> TRUE, s |-> <<>>]
SomeStr(s) == [isNone |-> FALSE, s |-> s]

\* A cell of a record returned by worksheet.get_all_records(): a text, a
\* number (kept as its decimal digits) or None when the column is missing.
NoneCell == [t |-> "none", v |-> <<>>]
StrCell(s) == [t |-> "str", v |-> s]
IntCell(d) == [t |-> "int", v |-> d]

\* bool(x) of a cell: None, '' and 0 are falsy.
Truthy(c) ==
  CASE c.t = "none" -> FALSE
    [] c.t = "str" -> Len(c.v) > 0
    [] OTHER -> c.v # <<"0">>

\* str(x) of a cell: str(None) is the text 'None'.
PyStr(c) ==
  CASE c.t = "none" -> <<"N", "o", "n", "e">>
    [] OTHER -> c.v

IsSpace(ch) == ch \in {" ", "\t", "\n"}

RECURSIVE LStrip(_)
LStrip(s) == IF s # <<>> /\ IsSpace(Head(s)) THEN LStrip(Tail(s)) ELSE s

RECURSIVE RStrip(_)
RStrip(s) ==
  IF s # <<>> /\ IsSpace(s[Len(s)]) THEN RStrip(SubSeq(s, 1, Len(s) - 1)) ELSE s

\* str.strip()
Strip(s) == RStrip(LStrip(s))

\* The characters str.isdigit() counts as digits: 0-9 and the digits of other
\* scripts and forms, of which superscript two stands here, named by its code
\* point.
IsDigitChar(ch) ==
  ch \in {"0", "1", "2", "3", "4", "5", "6", "7", "8", "9", "U+00B2"}

\* str.isdigit(): false on the empty string.
IsDigit(s) == Len(s) > 0 /\ \A i \in 1..Len(s) : IsDigitChar(s[i])

(* ------------------------------------------------------------ page elements *)
WarnEnterImei == "warning: ingresa un IMEI"
WarnFormat == "warning: 15 digitos"
ErrSpreadsheet == "error: hoja de calculo no encontrada"
ErrWorksheet == "error: hoja de trabajo no encontrada"
ErrLoad == "error: al cargar los datos"
SuccessFound == "success: IMEI encontrado"
ErrDownload == "error: al descargar el PDF"
DownloadButton == "download_button: Descargar PDF"
PdfFrame == "markdown: iframe"
WarnNoPdf == "warning: no hay PDF disponible"
ErrNotFound == "error: no se encontro un documento"

LoadErrors == {ErrSpreadsheet, ErrWorksheet, ErrLoad}

Has(els, e) == \E i \in 1..Len(els) : els[i] = e

(* ------------------------------------------------------------ the sheet *)
\* One record of get_all_records(): the two columns the loader reads.
Row(imei, url) == [IMEI |-> imei, PDF_URL |-> url]

\* What the data source answers to one read.
SourceStates == {"ok", "Exception", "SpreadsheetNotFound", "WorksheetNotFound"}

EmptyDict == [k \in {} |-> <<>>]
Put(d, k, v) == [x \in (DOMAIN d) \cup {k} |-> IF x = k THEN v ELSE d[x]]

NoneMap == [isNone |-> TRUE, map |-> EmptyDict]
SomeMap(d) == [isNone |-> FALSE, map |-> d]

\* The row loop of get_google_sheet_data (lines 56-65).  pdf_url.strip() on a
\* number raises AttributeError, which the generic except turns into None.
RECURSIVE RowLoop(_, _, _)
RowLoop(records, i, imei_data) ==
  IF i > Len(records) THEN [value |-> SomeMap(imei_data), elems |-> <<>>]
  ELSE LET imei == PyStr(records[i].IMEI)
           pdf_url == records[i].PDF_URL
       IN IF Len(imei) > 0 /\ Truthy(pdf_url)
          THEN IF pdf_url.t # "str"
               THEN [value |-> NoneMap, elems |-> <<ErrLoad>>]
               ELSE RowLoop(records, i + 1,
                            Put(imei_data, Strip(imei), Strip(pdf_url.v)))
          ELSE RowLoop(records, i + 1, imei_data)

\* The body of get_google_sheet_data, one uncached call: the value it returns
\* and the elements it writes to the page.
LoadSheet(src, records) ==
  CASE src = "SpreadsheetNotFound" -> [value |-> NoneMap, elems |-> <<ErrSpreadsheet>>]
    [] src = "WorksheetNotFound" -> [value |-> NoneMap, elems |-> <<ErrWorksheet>>]
    [] src = "Exception" -> [value |-> NoneMap, elems |-> <<ErrLoad>>]
    [] OTHER -> RowLoop(records, 1, EmptyDict)

(* ------------------------------------------------------------ the cache *)
NoEntry == [present |-> FALSE, value |-> NoneMap, elems |-> <<>>, loaded_at |-> 0]

\* Variants of Fresh: no caching at all, a cache without ttl, and a cache that
\* keeps a failed load for ever.
FreshNever(entry, t) == FALSE
FreshForEver(entry, t) == entry.present
FreshOrFailed(entry, t) ==
  entry.present /\ (entry.value.isNone \/ t - entry.loaded_at < TTL)

\* st.cache_data(ttl=TTL): an entry is served while it is younger than TTL.
Fresh(entry, t) == entry.present /\ t - entry.loaded_at < TTL

\* get_google_sheet_data() as the page calls it: the cached value and its
\* recorded elements on a hit, one read of the data source on a miss.
get_google_sheet_data(entry, t, src, records) ==
  IF Fresh(entry, t)
  THEN [value |-> entry.value, elems |-> entry.elems, entry |-> entry, read |-> 0]
  ELSE LET r == LoadSheet(src, records)
       IN [value |-> r.value, elems |-> r.elems, read |-> 1,
           entry |-> [present |-> TRUE, value |-> r.value, elems |-> r.elems,
                      loaded_at |-> t]]

(* ------------------------------------------------------------ the fetcher *)
NoneBytes == [isNone |-> TRUE, data |-> <<>>]
SomeBytes(b) == [isNone |-> FALSE, data |-> b]

NoResponse == [kind |-> "none", status |-> 0, body |-> <<>>]
HttpResponse(st, b) == [kind |-> "http", status |-> st, body |-> b]
NetworkFailure == [kind |-> "failure", status |-> 0, body |-> <<>>]

\* Variant of RaisesForStatus: only 5xx raises.
RaisesForServerError(resp) == 500 <= resp.status /\ resp.status < 600

\* response.raise_for_status() raises for 4xx and 5xx.
RaisesForStatus(resp) == 400 <= resp.status /\ resp.status < 600

FetchOk(resp) == resp.kind = "http" /\ ~RaisesForStatus(resp)

\* download_pdf_as_bytes: the bytes it returns and the elements it writes.
download_pdf_as_bytes(resp) ==
  IF FetchOk(resp)
  THEN [bytes |-> SomeBytes(resp.body), elems |-> <<>>]
  ELSE [bytes |-> NoneBytes, elems |-> <<ErrDownload>>]

(* ------------------------------------------------------------ the presenter *)
NoDownload == [offered |-> FALSE, data |-> <<>>]

\* display_pdf_in_streamlit: `if pdf_bytes:` is false for None and for b''.
display_pdf_in_streamlit(pdf_bytes) ==
  IF ~pdf_bytes.isNone /\ Len(pdf_bytes.data) > 0
  THEN [download |-> [offered |-> TRUE, data |-> pdf_bytes.data],
        elems |-> <<DownloadButton, PdfFrame>>]
  ELSE [download |-> NoDownload, elems |-> <<WarnNoPdf>>]

(* ------------------------------------------------------------ inputs *)
Pad(n) == [i \in 1..n |-> "1"]
Key1 == Pad(IMEI_LEN)
Key2 == Pad(IMEI_LEN - 1) \o <<"2">>

\* What the user may type: empty, short, long, with a letter or a blank at
\* either end, and the well-formed keys.
InputHeads == {<<>>, <<"a">>}
InputTails == {<<>>, <<"2">>, <<"U+00B2">>, <<"a">>, <<" ">>}
PadLens == {0, IMEI_LEN - 2, IMEI_LEN - 1, IMEI_LEN}
Inputs == {h \o Pad(n) \o t : h \in InputHeads, n \in PadLens, t \in InputTails}

UrlA == <<"u">>
UrlB == <<"v">>

ImeiCells ==
  {NoneCell, StrCell(<<>>), StrCell(<<" ">>), IntCell(Key1),
   StrCell(<<" ">> \o Key2 \o <<" ">>)}
UrlCells ==
  {NoneCell, StrCell(<<>>), StrCell(<<" ">>), StrCell(UrlA),
   StrCell(<<" ">> \o UrlB \o <<" ">>), IntCell(<<"7">>), IntCell(<<"0">>)}
Rows == {Row(i, u) : i \in ImeiCells, u \in UrlCells}

\* Every sheet of at most MaxRows rows.
AllSheets == UNION {[1..n -> Rows] : n \in 0..MaxRows}

\* The sheets the page is run against.
Sheets ==
  { <<>>,
    <<Row(IntCell(Key1), StrCell(UrlA))>>,
    <<Row(StrCell(<<" ">> \o Key1 \o <<" ">>), StrCell(<<" ">> \o UrlB \o <<" ">>))>>,
    <<Row(IntCell(Key1), StrCell(<<" ">>))>>,
    <<Row(StrCell(<<" ">>), StrCell(UrlA))>>,
    <<Row(IntCell(Key1), IntCell(<<"7">>))>>,
    <<Row(IntCell(Key1), StrCell(UrlA)), Row(IntCell(Key2), StrCell(UrlB))>> }

Bodies == {<<>>, <<37, 80, 68, 70>>, <<0>>}
Responses ==
  {HttpResponse(st, b) : st \in {200, 399, 400, 404, 599}, b \in Bodies}
    \cup {NetworkFailure}

(* ------------------------------------------------------------ the page *)
\* Variant of Validate: the isdigit() test is left out.
ValidateLength(imei) ==
  IF Len(imei) = 0 THEN [ok |-> FALSE, elems |-> <<WarnEnterImei>>]
  ELSE IF Len(imei) # IMEI_LEN
       THEN [ok |-> FALSE, elems |-> <<WarnFormat>>]
       ELSE [ok |-> TRUE, elems |-> <<>>]

\* The validation branches of the button handler (lines 141-145).
Validate(imei) ==
  IF Len(imei) = 0 THEN [ok |-> FALSE, elems |-> <<WarnEnterImei>>]
  ELSE IF Len(imei) # IMEI_LEN \/ ~IsDigit(imei)
       THEN [ok |-> FALSE, elems |-> <<WarnFormat>>]
       ELSE [ok |-> TRUE, elems |-> <<>>]

\* dict.get(key)
DictGet(d, k) == IF k \in DOMAIN d THEN SomeStr(d[k]) ELSE NoneStr

\* `if imei_data_map:` is false for None and for the empty dict.
MapTruthy(m) == ~m.isNone /\ DOMAIN m.map # {}

\* `if pdf_url:` is false for None and for ''.
UrlTruthy(u) == ~u.isNone /\ Len(u.s) > 0

\* Variant of LookupBranch: None is looked up like an empty mapping.
LookupBranchNoneAsMiss(m, imei) ==
  LET url == DictGet(m.map, imei)
  IN IF UrlTruthy(url)
     THEN [url |-> url, elems |-> <<SuccessFound>>, next |-> "Fetching"]
     ELSE [url |-> url, elems |-> <<ErrNotFound>>, next |-> "Idle"]

\* The lookup branch of the button handler (lines 149-157).
LookupBranch(m, imei) ==
  IF MapTruthy(m)
  THEN LET url == DictGet(m.map, imei)
       IN IF UrlTruthy(url)
          THEN [url |-> url, elems |-> <<SuccessFound>>, next |-> "Fetching"]
          ELSE [url |-> url, elems |-> <<ErrNotFound>>, next |-> "Idle"]
  ELSE [url |-> NoneStr, elems |-> <<>>, next |-> "Idle"]

VARIABLES
  records,     \* the sheet as the data source holds it now
  now,         \* the clock, in seconds
  cache,       \* the st.cache_data entry of get_google_sheet_data
  pc,          \* where the button handler is
  imei_input,  \* the text of the input field in this run
  pdf_url,     \* the lookup's result in this run
  pdf_bytes,   \* the fetcher's result in this run
  elements,    \* what this run has written to the page
  download,    \* the download button of this run, if any
  response,    \* what the HTTP endpoint answered in this run
  reads,       \* reads of the data source in this run
  fetches,     \* HTTP requests in this run
  looked,      \* whether this run has called get_google_sheet_data
  lookup,      \* the latest call of get_google_sheet_data and its lookup
  button,      \* whether this run was started by the button
  call         \* what this run's call of get_google_sheet_data met

vars ==
  <<records, now, cache, pc, imei_input, pdf_url, pdf_bytes, elements, download,
    response, reads, fetches, looked, lookup, button, call>>

NoLookup == [key |-> <<>>, value |-> NoneMap, url |-> NoneStr, loaded_at |-> 0]

\* age: the age of the cache entry the call met (-1: none); repeat: the call
\* asks for the key of the call before it, inside the TTL window of the load
\* that served that call; changed: the call returned another value than the
\* entry it met; src: what the data source answered ("unread": not asked).
\* met_none: the entry it met held None, the value of a failed load.
NoCall ==
  [age |-> -1, repeat |-> FALSE, changed |-> FALSE, met_none |-> FALSE, src |-> "unread"]

Fields ==
  /\ now = 0
  /\ cache = NoEntry
  /\ pc = "Idle"
  /\ imei_input = <<>>
  /\ pdf_url = NoneStr
  /\ pdf_bytes = NoneBytes
  /\ elements = <<>>
  /\ download = NoDownload
  /\ response = NoResponse
  /\ reads = 0
  /\ fetches = 0
  /\ looked = FALSE
  /\ lookup = NoLookup
  /\ button = FALSE
  /\ call = NoCall

Init == records \in Sheets /\ Fields

\* The user types imei and presses the button: the script runs again from the
\* top, validates the input and either warns or goes on to the lookup.
Search(imei) ==
  /\ pc = "Idle"
  /\ imei_input' = imei
  /\ elements' = Validate(imei).elems
  /\ pc' = IF Validate(imei).ok THEN "LookingUp" ELSE "Idle"
  /\ pdf_url' = NoneStr
  /\ pdf_bytes' = NoneBytes
  /\ download' = NoDownload
  /\ response' = NoResponse
  /\ reads' = 0
  /\ fetches' = 0
  /\ looked' = FALSE
  /\ button' = TRUE
  /\ call' = NoCall
  /\ UNCHANGED <<records, now, cache, lookup>>

\* Lines 147-157: the cached loader, then the lookup.
LookUp(src) ==
  /\ pc = "LookingUp"
  /\ LET r == get_google_sheet_data(cache, now, src, records)
         b == LookupBranch(r.value, imei_input)
     IN /\ cache' = r.entry
        /\ reads' = reads + r.read
        /\ looked' = TRUE
        /\ lookup' = [key |-> imei_input, value |-> r.value, url |-> b.url,
                      loaded_at |-> r.entry.loaded_at]
        /\ pdf_url' = b.url
        /\ elements' = elements \o r.elems \o b.elems
        /\ pc' = b.next
        /\ call' = [age |-> IF cache.present THEN now - cache.loaded_at ELSE -1,
                    repeat |-> lookup.key = imei_input /\ now - lookup.loaded_at < TTL,
                    changed |-> cache.present /\ r.value # cache.value,
                    met_none |-> cache.present /\ cache.value.isNone,
                    src |-> IF r.read = 1 THEN src ELSE "unread"]
  /\ UNCHANGED <<records, now, imei_input, pdf_bytes, download, response, fetches, button>>

\* Line 154: one GET of the mapped URL, answered by resp.
Fetch(resp) ==
  /\ pc = "Fetching"
  /\ LET r == download_pdf_as_bytes(resp)
     IN /\ pdf_bytes' = r.bytes
        /\ elements' = elements \o r.elems
  /\ response' = resp
  /\ fetches' = fetches + 1
  /\ pc' = "Presenting"
  /\ UNCHANGED <<records, now, cache, imei_input, pdf_url, download, reads, looked, lookup,
                 button, call>>

\* Line 155: the presenter, which ends the run.
Present ==
  /\ pc = "Presenting"
  /\ LET d == display_pdf_in_streamlit(pdf_bytes)
     IN /\ download' = d.download
        /\ elements' = elements \o d.elems
  /\ pc' = "Idle"
  /\ UNCHANGED <<records, now, cache, imei_input, pdf_url, pdf_bytes, response, reads,
                 fetches, looked, lookup, button, call>>

\* Time passes.
Tick ==
  /\ now + TickStep <= MaxTime
  /\ now' = now + TickStep
  /\ UNCHANGED <<records, cache, pc, imei_input, pdf_url, pdf_bytes, elements, download,
                 response, reads, fetches, looked, lookup, button, call>>

\* Somebody edits the sheet.
EditSheet(sheet) ==
  /\ sheet # records
  /\ records' = sheet
  /\ UNCHANGED <<now, cache, pc, imei_input, pdf_url, pdf_bytes, elements, download,
                 response, reads, fetches, looked, lookup, button, call>>

Next ==
  \/ \E imei \in Inputs : Search(imei)
  \/ \E src \in SourceStates : LookUp(src)
  \/ \E resp \in Responses : Fetch(resp)
  \/ Present
  \/ Tick
  \/ \E sheet \in Sheets : EditSheet(sheet)

Spec == Init /\ [][Next]_vars

\* The loader alone, on every sheet of at most MaxRows rows.
InitLoad == records \in AllSheets /\ Fields

LoadOnce(src) ==
  /\ ~cache.present
  /\ cache' = get_google_sheet_data(cache, now, src, records).entry
  /\ UNCHANGED <<records, now, pc, imei_input, pdf_url, pdf_bytes, elements, download,
                 response, reads, fetches, looked, lookup, button, call>>

NextLoad == \E src \in SourceStates : LoadOnce(src)

SpecLoad == InitLoad /\ [][NextLoad]_vars

(* ------------------------------------------------------------ properties *)
\* The input is not 15 characters long or holds a character that is no digit,
\* a digit being any character of the Unicode digit class.
Malformed(imei) ==
  Len(imei) # IMEI_LEN \/ \E i \in 1..Len(imei) : ~IsDigitChar(imei[i])

\* The load that served this run's lookup succeeded and its mapping holds the key.
KeyInMapping == ~lookup.value.isNone /\ imei_input \in DOMAIN lookup.value.map

\* The HTTP request of this run failed: status >= 400 or no answer at all.
FetchFailed ==
  response.kind = "failure" \/ (response.kind = "http" /\ response.status >= 400)

HasLoadError == \E e \in LoadErrors : Has(elements, e)

\* The mapping the loader builds from the sheet as it is now.
SheetValue == RowLoop(records, 1, EmptyDict).value

\* The entry of a mapping for a key, None when the mapping is None or lacks it.
EntryOf(m, k) == IF ~m.isNone /\ k \in DOMAIN m.map THEN SomeStr(m.map[k]) ELSE NoneStr

\* The step that calls get_google_sheet_data and looks the key up.
LookUpStep == pc = "LookingUp" /\ pc' # "LookingUp"

C2_DownloadOffersFetchedBytes ==
  (pc = "Idle" /\ looked /\ KeyInMapping /\ fetches = 1 /\ ~FetchFailed) =>
    (download.offered /\ download.data = response.body)

\* C3: when the load succeeded and its mapping lacks the key, the run reports
\* "not found" and makes no HTTP request.
C3_MissReportsNotFound ==
  (pc = "Idle" /\ looked /\ ~lookup.value.isNone
     /\ imei_input \notin DOMAIN lookup.value.map) =>
    (Has(elements, ErrNotFound) /\ fetches = 0)

\* C4: a search for the key of the search before it, made inside the TTL
\* window of the load that served that search, reads nothing from the data
\* source and gets the same lookup result.
C4_RepeatWithinTtl ==
  [][(LookUpStep /\ lookup.key = imei_input /\ now - lookup.loaded_at < TTL) =>
       (reads' = 0 /\ lookup'.value = lookup.value /\ lookup'.url = lookup.url)]_vars

C4_Witness ==
  /\ pc = "Idle"
  /\ looked
  /\ call.repeat
  /\ reads = 0
  /\ ~lookup.value.isNone
  /\ SheetValue # lookup.value

\* C5: a lookup made when the cached entry is older than TTL reads the data
\* source exactly once, and what it returns is built from the sheet as it is
\* at that read.
C5_ReloadAfterTtl ==
  [][(LookUpStep /\ cache.present /\ now - cache.loaded_at > TTL) =>
       /\ reads = 0
       /\ reads' = 1
       /\ lookup'.loaded_at = now
       /\ call'.src = "ok" =>
            /\ lookup'.value = SheetValue
            /\ lookup'.url = EntryOf(SheetValue, imei_input)]_vars

C5_Witness ==
  /\ pc = "Idle"
  /\ looked
  /\ call.age > TTL
  /\ call.changed
  /\ call.src = "ok"
  /\ reads = 1
  /\ ~lookup.value.isNone

\* C6: when the fetch fails, the fetcher writes its error and returns None, the
\* presenter warns that there is no PDF, no download button is shown, and the
\* request is made once only.
C6_FetchFailure ==
  (fetches > 0 /\ FetchFailed) =>
    /\ fetches = 1
    /\ pdf_bytes.isNone
    /\ Has(elements, ErrDownload)
    /\ ~download.offered
    /\ ~Has(elements, DownloadButton)
    /\ pc \in {"Presenting", "Idle"}
    /\ pc = "Idle" => Has(elements, WarnNoPdf)

C6_Witness ==
  /\ pc = "Idle"
  /\ response.kind = "http"
  /\ response.status = 404
  /\ response.body # <<>>
  /\ Has(elements, WarnNoPdf)

\* C7: a mapping returned by a successful load has no empty key and no
\* empty value.
C7_NoEmptyEntries ==
  (cache.present /\ ~cache.value.isNone) =>
    \A k \in DOMAIN cache.value.map : k # <<>> /\ cache.value.map[k] # <<>>

\* C8: a load that meets an error writes the error of its kind and returns
\* None; the run that gets None stops there: no lookup, no "not found", no
\* HTTP request.
C8_LoadErrorStops ==
  /\ (looked /\ call.src = "SpreadsheetNotFound") =>
       (lookup.value.isNone /\ Has(elements, ErrSpreadsheet))
  /\ (looked /\ call.src = "WorksheetNotFound") =>
       (lookup.value.isNone /\ Has(elements, ErrWorksheet))
  /\ (looked /\ call.src = "Exception") =>
       (lookup.value.isNone /\ Has(elements, ErrLoad))
  /\ (looked /\ lookup.value.isNone) =>
       /\ pc = "Idle"
       /\ HasLoadError
       /\ pdf_url.isNone
       /\ ~Has(elements, ErrNotFound)
       /\ ~Has(elements, SuccessFound)
       /\ fetches = 0
       /\ ~download.offered

C8_Witness ==
  /\ pc = "Idle"
  /\ looked
  /\ call.src = "WorksheetNotFound"
  /\ lookup.value.isNone

\* C10: every error ends the run in Idle; a run that gets None from the
\* loader shows the load error, also when None comes from the cache; the next
\* run starts with nothing left of the one before; and once a cached failure
\* is older than TTL the next lookup reads the data source again and returns
\* what the sheet holds.
C10_ErrorsNotSticky ==
  /\ [](\A e \in {WarnEnterImei, WarnFormat, ErrNotFound, WarnNoPdf} \cup LoadErrors :
          Has(elements, e) => pc = "Idle")
  /\ [](Has(elements, ErrDownload) => pc \in {"Presenting", "Idle"})
  /\ []((looked /\ lookup.value.isNone) => HasLoadError)
  /\ [][(pc = "Idle" /\ pc' = "LookingUp") =>
          /\ elements' = <<>>
          /\ reads' = 0
          /\ fetches' = 0
          /\ pdf_url'.isNone
          /\ pdf_bytes'.isNone
          /\ ~download'.offered]_vars
  /\ [][(LookUpStep /\ cache.present /\ cache.value.isNone
           /\ now - cache.loaded_at > TTL) =>
          /\ reads' = 1
          /\ call'.src = "ok" => lookup'.value = SheetValue]_vars

C10_Witness ==
  /\ pc = "Idle"
  /\ looked
  /\ call.met_none
  /\ call.age > TTL
  /\ download.offered

====
